---- MODULE Spec2Model ----
(***************************************************************************)
(* A model of src/main.cpp: the process-wide leg registry (class Legs and  *)
(* its three statics) and the dense tensor (class Tensor<T>).              *)
(***************************************************************************)
EXTENDS Integers, Sequences, FiniteSets, TLC

(***************************************************************************)
(* Bounds of the model.                                                    *)
(***************************************************************************)
\* Raw ids handed to Legs(IdType) range over -1 .. MaxRawId (-1 is the id of
\* a default-constructed Legs).
MaxRawId == 3

\* Leg names requested through Legs(const std::string&): a few of the names
\* of the table in namespace legs_name, and one name outside the table.
Names == {"Phy", "Left", "Up", "Axis"}

RawIds == -1 .. MaxRawId

VARIABLES
    total,      \* Legs::total
    name2id,    \* Legs::name2id, a function from the registered names
    id2name,    \* Legs::id2name, a function from the registered ids
    issued,     \* history: the <<name, id>> of every Legs(name) that returned
    lcall,      \* the last registry call and what it returned
    t,          \* a Tensor<T>: the receiver of the member functions
    t2,         \* a second Tensor, the other operand of the binary transforms
    res,        \* the Tensor an out-of-place transform returned
    last        \* the last tensor operation, its arguments and its outcome

regvars == <<total, name2id, id2name>>
legvars == <<total, name2id, id2name, issued, lcall>>
tensorvars == <<t, t2, res, last>>
vars == <<total, name2id, id2name, issued, lcall, t, t2, res, last>>

NoCall == [op |-> "none", name |-> "", id |-> -1, out |-> ""]

(***************************************************************************)
(* Legs::total = 0; Legs::name2id = {}; Legs::id2name = {}.                *)
(***************************************************************************)
InitRegistry ==
    /\ total = 0
    /\ name2id = <<>>
    /\ id2name = <<>>

\* Mutant of LegsFromName: id = total, the counter not advanced.
LegsFromName_stale(name) ==
    /\ IF name \in DOMAIN name2id
       THEN /\ lcall' = [op |-> "name", name |-> name, id |-> name2id[name], out |-> ""]
            /\ issued' = issued \cup {<<name, name2id[name]>>}
            /\ UNCHANGED regvars
       ELSE /\ lcall' = [op |-> "name", name |-> name, id |-> total, out |-> ""]
            /\ issued' = issued \cup {<<name, total>>}
            /\ total' = total
            /\ name2id' = name2id @@ (name :> total)
            /\ id2name' = (total :> name) @@ id2name

(***************************************************************************)
(* explicit Legs(const std::string& name): name2id.at(name), and on        *)
(* std::out_of_range the next id is taken and both tables are written.     *)
(***************************************************************************)
LegsFromName(name) ==
    /\ IF name \in DOMAIN name2id
       THEN /\ lcall' = [op |-> "name", name |-> name, id |-> name2id[name], out |-> ""]
            /\ issued' = issued \cup {<<name, name2id[name]>>}
            /\ UNCHANGED regvars
       ELSE /\ lcall' = [op |-> "name", name |-> name, id |-> total, out |-> ""]
            /\ issued' = issued \cup {<<name, total>>}
            /\ total' = total + 1
            /\ name2id' = name2id @@ (name :> total)
            /\ id2name' = id2name @@ (total :> name)

(***************************************************************************)
(* explicit Legs(IdType i) : id{i}, and Legs() = default with id = -1.     *)
(***************************************************************************)
LegsFromId(i) ==
    /\ lcall' = [op |-> "raw", name |-> "", id |-> i, out |-> ""]
    /\ UNCHANGED <<regvars, issued>>

\* Mutant of display: the name table is not consulted.
display_synthetic(id) == "UserDefinedLeg" \o ToString(id)

(***************************************************************************)
(* operator<<(std::ostream&, const Legs&): what is written to the stream.  *)
(***************************************************************************)
display(id) ==
    IF id \in DOMAIN id2name
    THEN id2name[id]
    ELSE "UserDefinedLeg" \o ToString(id)

\* Mutant of Display: id2name[value.id] in place of id2name.at(value.id), which
\* inserts an empty name for an id that has none.
Display_subscript(id) ==
    /\ lcall' = [op |-> "display", name |-> "", id |-> id,
                 out |-> IF id \in DOMAIN id2name THEN id2name[id] ELSE ""]
    /\ id2name' = IF id \in DOMAIN id2name THEN id2name ELSE id2name @@ (id :> "")
    /\ UNCHANGED <<total, name2id, issued>>

Display(id) ==
    /\ lcall' = [op |-> "display", name |-> "", id |-> id, out |-> display(id)]
    /\ UNCHANGED <<regvars, issued>>

(***************************************************************************)
(* The registry after the static initialisation of namespace legs_name:    *)
(* TAT_DefineLeg(x) runs Legs(#x) for each name of the table, in order.    *)
(* The model keeps the first names of the table.                           *)
(***************************************************************************)
StaticTable == <<"Phy", "Left", "Right", "Up", "Down">>

StaticId(name) == (CHOOSE k \in 1 .. Len(StaticTable) : StaticTable[k] = name) - 1

StaticRegistry ==
    /\ total = Len(StaticTable)
    /\ name2id = [n \in {StaticTable[k] : k \in 1 .. Len(StaticTable)} |-> StaticId(n)]
    /\ id2name = [i \in 0 .. Len(StaticTable) - 1 |-> StaticTable[i + 1]]
    /\ issued = {<<StaticTable[k], k - 1>> : k \in 1 .. Len(StaticTable)}
    /\ lcall = NoCall

(***************************************************************************)
(* class Tensor<T>.  Flat index k of the code is data[k + 1] here.         *)
(***************************************************************************)
RECURSIVE Product(_)
Product(a) == IF a = <<>> THEN 1 ELSE Head(a) * Product(Tail(a))

\* T{}: the value std::vector<T>(size) gives every element.
Zero == 0

\* Tensor(A&& a, B&& b): rank, size, dims, legs, data(size).
Tensor(a, b) ==
    [rank |-> Len(a),
     size |-> Product(a),
     dims |-> a,
     legs |-> b,
     data |-> [k \in 1 .. Product(a) |-> Zero]]

NoTensor == Tensor(<<>>, <<>>)

\* get_index: index = 0; for (i = 0; i < rank; i++) index = index*dims[i] + position[i].
RECURSIVE get_index_from(_, _, _, _)
get_index_from(tn, position, i, index) ==
    IF i < tn.rank
    THEN get_index_from(tn, position, i + 1, index * tn.dims[i + 1] + position[i + 1])
    ELSE index

\* Mutant of get_index: index = (index + position[i]) * dims[i].
RECURSIVE get_index_late_from(_, _, _, _)
get_index_late_from(tn, position, i, index) ==
    IF i < tn.rank
    THEN get_index_late_from(tn, position, i + 1, (index + position[i + 1]) * tn.dims[i + 1])
    ELSE index

get_index_late(tn, position) == get_index_late_from(tn, position, 0, 0)

get_index(tn, position) == get_index_from(tn, position, 0, 0)

\* Mutant of get_position: the entries of dict are taken in the order of the
\* map (ascending leg id), not in the order of the tensor's legs.
get_position_by_key(tn, dict) ==
    IF \E k \in 1 .. Len(tn.legs) : tn.legs[k] \notin DOMAIN dict
    THEN [thrown |-> TRUE, res |-> <<>>]
    ELSE [thrown |-> FALSE,
          res |-> [k \in 1 .. Len(tn.legs) |->
                     dict[CHOOSE l \in DOMAIN dict :
                            Cardinality({m \in DOMAIN dict : m < l}) =
                            (k - 1) % Cardinality(DOMAIN dict)]]]

\* Mutant of get_position: a leg that is no key of dict gets index 0.
get_position_default(tn, dict) ==
    [thrown |-> FALSE,
     res |-> [k \in 1 .. Len(tn.legs) |->
                IF tn.legs[k] \in DOMAIN dict THEN dict[tn.legs[k]] ELSE 0]]

\* get_position: std::transform over legs with dict.at(l); std::map::at throws
\* std::out_of_range at the first leg that is no key of dict.
get_position(tn, dict) ==
    IF \E k \in 1 .. Len(tn.legs) : tn.legs[k] \notin DOMAIN dict
    THEN [thrown |-> TRUE, res |-> <<>>]
    ELSE [thrown |-> FALSE, res |-> [k \in 1 .. Len(tn.legs) |-> dict[tn.legs[k]]]]

\* The std::map<Legs, Size> a caller builds from the pairs {legs[i], p[i]}: the
\* initializer-list constructor keeps the first pair of each key.
LegMap(legs, p) ==
    [l \in {legs[k] : k \in 1 .. Len(legs)} |->
        p[CHOOSE k \in 1 .. Len(legs) :
            legs[k] = l /\ \A j \in 1 .. k - 1 : legs[j] # l]]

\* What a read of memory outside the buffer can yield.
Garbage == {0, 9}

\* The record of a tensor operation: its arguments, the flat index and the
\* value it reached, how it ended, the receiver before it, and (prev) the
\* operation before it.  index = -1: no element of the buffer was reached.
NoPrev == [op |-> "none", position |-> <<>>, value |-> 0, outcome |-> "none"]

NoLast ==
    [op |-> "none", position |-> <<>>, dict |-> <<>>, index |-> -1,
     value |-> 0, arg |-> 0, f |-> "", outcome |-> "none", before |-> NoTensor,
     prev |-> NoPrev]

NewCall ==
    [NoLast EXCEPT !.prev = [op |-> last.op, position |-> last.position,
                             value |-> last.value, outcome |-> last.outcome]]

\* All sequences of length n over the set S.
Seqs(S, n) == [1 .. n -> S]

\* const T& operator()(position) const: data[get_index(position)].  The
\* subscript of std::vector is unchecked: past the end the behaviour is
\* undefined (a fault, or whatever the memory there holds).
ReadAt(position) ==
    LET index == get_index(t, position)
        call == [NewCall EXCEPT !.op = "read_at", !.position = position,
                               !.index = index, !.before = t]
    IN  /\ IF index < Len(t.data)
           THEN last' = [call EXCEPT !.value = t.data[index + 1], !.outcome = "ok"]
           ELSE \/ last' = [call EXCEPT !.outcome = "fault"]
                \/ \E g \in Garbage :
                      last' = [call EXCEPT !.value = g, !.outcome = "outside"]
        /\ UNCHANGED <<legvars, t, t2, res>>

\* T& operator()(position), assigned to: data[get_index(position)] = v.
WriteAt(position, v) ==
    LET index == get_index(t, position)
        call == [NewCall EXCEPT !.op = "write_at", !.position = position,
                               !.index = index, !.value = v, !.before = t]
    IN  /\ IF index < Len(t.data)
           THEN /\ t' = [t EXCEPT !.data[index + 1] = v]
                /\ last' = [call EXCEPT !.outcome = "ok"]
           ELSE /\ t' = t
                /\ \/ last' = [call EXCEPT !.outcome = "fault"]
                   \/ last' = [call EXCEPT !.outcome = "outside"]
        /\ UNCHANGED <<legvars, t2, res>>

\* const T& operator()(dict) const: data[get_index(get_position(dict))].
ReadDict(dict) ==
    LET pos == get_position(t, dict)
        index == get_index(t, pos.res)
        call == [NewCall EXCEPT !.op = "read_dict", !.dict = dict, !.before = t]
    IN  /\ IF pos.thrown
           THEN last' = [call EXCEPT !.outcome = "out_of_range"]
           ELSE IF index < Len(t.data)
           THEN last' = [call EXCEPT !.position = pos.res, !.index = index,
                                     !.value = t.data[index + 1], !.outcome = "ok"]
           ELSE \/ last' = [call EXCEPT !.position = pos.res, !.index = index,
                                        !.outcome = "fault"]
                \/ \E g \in Garbage :
                      last' = [call EXCEPT !.position = pos.res, !.index = index,
                                           !.value = g, !.outcome = "outside"]
        /\ UNCHANGED <<legvars, t, t2, res>>

\* T& operator()(dict), assigned to: data[get_index(get_position(dict))] = v.
WriteDict(dict, v) ==
    LET pos == get_position(t, dict)
        index == get_index(t, pos.res)
        call == [NewCall EXCEPT !.op = "write_dict", !.dict = dict, !.value = v,
                               !.before = t]
    IN  /\ IF pos.thrown
           THEN /\ t' = t
                /\ last' = [call EXCEPT !.outcome = "out_of_range"]
           ELSE IF index < Len(t.data)
           THEN /\ t' = [t EXCEPT !.data[index + 1] = v]
                /\ last' = [call EXCEPT !.position = pos.res, !.index = index,
                                        !.outcome = "ok"]
           ELSE /\ t' = t
                /\ \/ last' = [call EXCEPT !.position = pos.res, !.index = index,
                                           !.outcome = "fault"]
                   \/ last' = [call EXCEPT !.position = pos.res, !.index = index,
                                           !.outcome = "outside"]
        /\ UNCHANGED <<legvars, t2, res>>

\* A producer std::function<T()>: a counter, as the lambda of main with its
\* static int i.  Calling it returns the count and advances it.
Counter(start) == [next |-> start, calls |-> 0]

Call(g) == [value |-> g.next, g |-> [next |-> g.next + 1, calls |-> g.calls + 1]]

\* The producer after j calls.
Called(g, j) == [next |-> g.next + j, calls |-> g.calls + j]

\* Mutant of std_generate: the producer is called once before the loop.
std_generate_late(data, g) ==
    [data |-> [k \in 1 .. Len(data) |-> Call(Called(g, k)).value],
     g |-> Called(g, Len(data) + 1)]

\* std::generate(first, last, g): for (; first != last; ++first) *first = g().
\* Element k (from 1) is assigned the result of call number k; the loop makes
\* one call per element.
std_generate(data, g) ==
    [data |-> [k \in 1 .. Len(data) |-> Call(Called(g, k - 1)).value],
     g |-> Called(g, Len(data))]

\* void generate(std::function<T()> g).  last.arg is the number of calls made.
generate(start) ==
    LET done == std_generate(t.data, Counter(start))
    IN  /\ t' = [t EXCEPT !.data = done.data]
        /\ last' = [NewCall EXCEPT !.op = "generate", !.value = start,
                                  !.arg = done.g.calls, !.outcome = "ok",
                                  !.before = t]
        /\ UNCHANGED <<legvars, t2, res>>

\* The functions handed to the transforms: std::function<T(T)> and
\* std::function<T(T, T2)>.
UnaryFns == {"neg", "inc"}

ApplyUnary(f, x) == IF f = "neg" THEN 0 - x ELSE x + 1

BinaryFns == {"add", "sub"}

ApplyBinary(f, x, y) == IF f = "add" THEN x + y ELSE x - y

\* std::transform(first1, last1, d_first, f): element k of the destination is
\* f of element k of the source.
transform_unary(src, f) == [k \in 1 .. Len(src) |-> ApplyUnary(f, src[k])]

\* std::transform(first1, last1, first2, d_first, f): element k of the
\* destination is f of the elements k of both sources.  The second range is
\* read as far as the first is long, its end unchecked; g stands for what the
\* memory past its end holds.
transform_binary(src1, src2, f, g) ==
    [k \in 1 .. Len(src1) |->
        ApplyBinary(f, src1[k], IF k <= Len(src2) THEN src2[k] ELSE g)]

\* void inplace_op_unary(std::function<T(T)> f).
inplace_op_unary(f) ==
    /\ t' = [t EXCEPT !.data = transform_unary(t.data, f)]
    /\ last' = [NewCall EXCEPT !.op = "inplace_op_unary", !.f = f,
                              !.outcome = "ok", !.before = t]
    /\ UNCHANGED <<legvars, t2, res>>

\* Mutant of outplace_unary_result: the result gets default-constructed legs.
outplace_unary_result_nolegs(tn, f) ==
    [Tensor(tn.dims, [k \in 1 .. Len(tn.legs) |-> -1]) EXCEPT
        !.data = transform_unary(tn.data, f)]

\* The tensor outplace_op_unary returns: Tensor<T2>(dims, legs), filled.
outplace_unary_result(tn, f) ==
    [Tensor(tn.dims, tn.legs) EXCEPT !.data = transform_unary(tn.data, f)]

\* auto outplace_op_unary(std::function<T2(T)> f).
outplace_op_unary(f) ==
    /\ res' = outplace_unary_result(t, f)
    /\ last' = [NewCall EXCEPT !.op = "outplace_op_unary", !.f = f,
                              !.outcome = "ok", !.before = t]
    /\ UNCHANGED <<legvars, t, t2>>

\* void inplace_op_binary(std::function<T(T, T2)> f, const Tensor<T2>& t2).
\* With t2.data shorter than data the reads past its end are undefined: a
\* fault once the elements before it are written, or garbage combined in.
inplace_op_binary(f) ==
    LET call == [NewCall EXCEPT !.op = "inplace_op_binary", !.f = f, !.before = t]
    IN  /\ IF Len(t2.data) >= Len(t.data)
           THEN /\ t' = [t EXCEPT !.data = transform_binary(t.data, t2.data, f, 0)]
                /\ last' = [call EXCEPT !.outcome = "ok"]
           ELSE \/ /\ t' = [t EXCEPT !.data =
                              [k \in 1 .. Len(t.data) |->
                                  IF k <= Len(t2.data)
                                  THEN ApplyBinary(f, t.data[k], t2.data[k])
                                  ELSE t.data[k]]]
                   /\ last' = [call EXCEPT !.outcome = "fault"]
                \/ \E g \in Garbage :
                      /\ t' = [t EXCEPT !.data = transform_binary(t.data, t2.data, f, g)]
                      /\ last' = [call EXCEPT !.outcome = "outside"]
        /\ UNCHANGED <<legvars, t2, res>>

\* The tensor outplace_op_binary returns: Tensor<T>(t1.dims, t1.legs), filled.
outplace_binary_result(t1, tn2, f, g) ==
    [Tensor(t1.dims, t1.legs) EXCEPT !.data = transform_binary(t1.data, tn2.data, f, g)]

\* auto outplace_op_binary(f, const Tensor<T1>& t1, const Tensor<T2>& t2), with
\* t as t1.  (The source spells the parameter type std:function and the
\* returned name resl; the model reads them as std::function and res.)
outplace_op_binary(f) ==
    LET call == [NewCall EXCEPT !.op = "outplace_op_binary", !.f = f, !.before = t]
    IN  /\ IF Len(t2.data) >= Len(t.data)
           THEN /\ res' = outplace_binary_result(t, t2, f, 0)
                /\ last' = [call EXCEPT !.outcome = "ok"]
           ELSE \/ /\ res' = res
                   /\ last' = [call EXCEPT !.outcome = "fault"]
                \/ \E g \in Garbage :
                      /\ res' = outplace_binary_result(t, t2, f, g)
                      /\ last' = [call EXCEPT !.outcome = "outside"]
        /\ UNCHANGED <<legvars, t, t2>>

AxisLegs == <<"Up", "Down", "Left", "Right", "Phy">>

AxisLeg(k) == StaticId(AxisLegs[k])

LegSet(tn) == {tn.legs[k] : k \in 1 .. Len(tn.legs)}

\* The legs main gives its tensor, cut to n axes: Up, Down, Left, ...
MainLegs(n) == [k \in 1 .. n |-> AxisLeg(k)]

\* Tensor<double>({2,3,4}, {Up, Down, Left}) of main.
MainTensor == Tensor(<<2, 3, 4>>, MainLegs(3))

\* The largest extent of a tensor (0 for a scalar): indices are drawn below it.
MaxExtent(tn) ==
    IF tn.rank = 0 THEN 0
    ELSE CHOOSE e \in {tn.dims[k] : k \in 1 .. tn.rank} :
            \A k \in 1 .. tn.rank : tn.dims[k] <= e

----------------------------------------------------------------------------
(***************************************************************************)
(* The index arithmetic alone: a tensor of any bounded shape, and          *)
(* get_index applied once to a position of rank entries.                   *)
(***************************************************************************)
IdxRank == 3
IdxDim == 4

IdxShapes == UNION {Seqs(0 .. IdxDim, n) : n \in 0 .. IdxRank}

GetIndex(position) ==
    /\ last' = [NewCall EXCEPT !.op = "get_index", !.position = position,
                              !.index = get_index(t, position), !.outcome = "ok",
                              !.before = t]
    /\ UNCHANGED <<legvars, t, t2, res>>

InitIndex ==
    /\ StaticRegistry
    /\ \E a \in IdxShapes : t = Tensor(a, MainLegs(Len(a)))
    /\ t2 = NoTensor
    /\ res = NoTensor
    /\ last = NoLast

NextIndex ==
    /\ last.op = "none"
    /\ \E position \in Seqs(0 .. IdxDim - 1, t.rank) : GetIndex(position)

SpecIndex == InitIndex /\ [][NextIndex]_vars

----------------------------------------------------------------------------
(***************************************************************************)
(* Element access: a fresh tensor of any bounded shape (extents from 1) and *)
(* any legs, then one access; after a positional write, one leg-keyed      *)
(* read.                                                                   *)
(***************************************************************************)
AccRank == 2
AccDim == 2

AccShapes == UNION {Seqs(1 .. AccDim, n) : n \in 0 .. AccRank}

AccLegs == {AxisLeg(k) : k \in 1 .. AccRank}

AccDicts == UNION {[K -> 0 .. AccDim - 1] : K \in SUBSET AccLegs}

\* The values the writes store: none the Zero of a fresh buffer.
WriteValues == {7}

InitAccess ==
    /\ StaticRegistry
    /\ \E a \in AccShapes : \E b \in Seqs(AccLegs, Len(a)) : t = Tensor(a, b)
    /\ t2 = NoTensor
    /\ res = NoTensor
    /\ last = NoLast

NextAccess ==
    \/ /\ last.op = "none"
       /\ \E position \in Seqs(0 .. AccDim - 1, t.rank) : ReadAt(position)
    \/ /\ last.op \in {"none", "write_at"}
       /\ \E dict \in AccDicts : ReadDict(dict)
    \/ /\ last.op = "none"
       /\ \E position \in Seqs(0 .. AccDim - 1, t.rank) :
             \E v \in WriteValues : WriteAt(position, v)
    \/ /\ last.op = "none"
       /\ \E dict \in AccDicts : \E v \in WriteValues : WriteDict(dict, v)

SpecAccess == InitAccess /\ [][NextAccess]_vars

----------------------------------------------------------------------------
(***************************************************************************)
(* Bulk operations: a fresh tensor t (of a bounded shape, or the tensor of *)
(* main) and a filled tensor t2; generate, then a leg-keyed read as in     *)
(* main or one transform.                                                  *)
(***************************************************************************)
BulkRank == 2
BulkDim == 2

BulkShapes == UNION {Seqs(0 .. BulkDim, n) : n \in 0 .. BulkRank}

Starts == {0, 5}

\* The legs of t2: those of main in reverse order.
OtherLegs(n) == [k \in 1 .. n |-> AxisLeg(n + 1 - k)]

InitBulk ==
    /\ StaticRegistry
    /\ \/ \E a \in BulkShapes : t = Tensor(a, MainLegs(Len(a)))
       \/ t = MainTensor
    /\ \E b \in BulkShapes :
          t2 = [Tensor(b, OtherLegs(Len(b))) EXCEPT
                   !.data = std_generate(@, Counter(1)).data]
    /\ res = NoTensor
    /\ last = NoLast

NextBulk ==
    \/ /\ last.op = "none"
       /\ \E start \in Starts : generate(start)
    \/ /\ last.op = "generate"
       /\ \E dict \in [LegSet(t) -> 0 .. MaxExtent(t) - 1] : ReadDict(dict)
    \/ /\ last.op \in {"none", "generate"}
       /\ \E f \in UnaryFns : inplace_op_unary(f)
    \/ /\ last.op \in {"none", "generate"}
       /\ \E f \in UnaryFns : outplace_op_unary(f)
    \/ /\ last.op \in {"none", "generate"}
       /\ \E f \in BinaryFns : inplace_op_binary(f)
    \/ /\ last.op \in {"none", "generate"}
       /\ \E f \in BinaryFns : outplace_op_binary(f)

SpecBulk == InitBulk /\ [][NextBulk]_vars

----------------------------------------------------------------------------
Init ==
    /\ InitRegistry
    /\ issued = {}
    /\ lcall = NoCall
    /\ t = NoTensor
    /\ t2 = NoTensor
    /\ res = NoTensor
    /\ last = NoLast

Next ==
    \/ \E name \in Names : LegsFromName(name) /\ UNCHANGED tensorvars
    \/ \E i \in RawIds : LegsFromId(i) /\ UNCHANGED tensorvars
    \/ \E id \in RawIds : Display(id) /\ UNCHANGED tensorvars

Spec == Init /\ [][Next]_vars

----------------------------------------------------------------------------
(***************************************************************************)
(* Properties.                                                             *)
(***************************************************************************)
\* The position is in range: every entry is below the extent of its axis.
InRange(tn, position) == \A k \in 1 .. tn.rank : position[k] < tn.dims[k]

\* stride[rank] = 1 and stride[k] = stride[k + 1] * extents[k + 1].
RECURSIVE Stride(_, _)
Stride(tn, k) == IF k >= tn.rank THEN 1 ELSE Stride(tn, k + 1) * tn.dims[k + 1]

\* The sum of position[k] * stride[k] over the axes k .. rank.
RECURSIVE RowMajorFrom(_, _, _)
RowMajorFrom(tn, position, k) ==
    IF k > tn.rank THEN 0
    ELSE position[k] * Stride(tn, k) + RowMajorFrom(tn, position, k + 1)

RowMajor(tn, position) == RowMajorFrom(tn, position, 1)

PairwiseDistinct(legs) ==
    \A j, k \in 1 .. Len(legs) : j # k => legs[j] # legs[k]

\* C1: after any sequence of Legs(name) and Legs(id) calls, two Legs(name)
\* calls with different names have returned different ids, and two calls
\* with the same name the same id.
RegistryBijection ==
    \A p, q \in issued : (p[1] = q[1]) <=> (p[2] = q[2])

\* A third call repeats the name registered first, after a second name.
RegistryBijectionWitness ==
    /\ total = 2
    /\ lcall.op = "name"
    /\ lcall.id = 0
    /\ \E p, q \in issued : p[1] # q[1]

\* C2: whenever a Legs that some Legs(n) call returned is written to a
\* stream, what is written is exactly n.
RoundTripNaming ==
    lcall.op = "display" =>
        \A p \in issued : p[2] = lcall.id => lcall.out = p[1]

\* The leg registered second is displayed.
RoundTripNamingWitness ==
    /\ lcall.op = "display"
    /\ lcall.id = 1
    /\ \E p \in issued : p[2] = 1 /\ lcall.out = p[1]

\* name2id and id2name are inverse maps and the ids are exactly 0 .. total-1.
RegistryInverse ==
    /\ DOMAIN id2name = 0 .. total - 1
    /\ \A n \in DOMAIN name2id :
          name2id[n] \in DOMAIN id2name /\ id2name[name2id[n]] = n
    /\ \A i \in DOMAIN id2name :
          id2name[i] \in DOMAIN name2id /\ name2id[id2name[i]] = i

\* A step of the registry: Legs(name) with a name not yet registered returns
\* the counter, adds name -> id and id -> name and raises the counter by
\* one; any other call leaves the counter and both tables as they are.
RegistryStep ==
    IF lcall'.op = "name" /\ lcall'.name \notin DOMAIN name2id
    THEN /\ lcall'.id = total
         /\ total' = total + 1
         /\ name2id' = name2id @@ (lcall'.name :> total)
         /\ id2name' = id2name @@ (total :> lcall'.name)
    ELSE UNCHANGED regvars

\* C10: the registry changes only when Legs(name) is called with a name not
\* yet registered, and then as RegistryStep says; in every reachable state
\* name2id and id2name are inverse maps whose ids are exactly 0 .. total-1.
RegistryChangesOnlyOnNewName ==
    []RegistryInverse /\ [][RegistryStep]_vars

\* Two names are registered and a raw identity was constructed after them.
RegistryChangesWitness ==
    /\ total = 2
    /\ lcall.op = "raw"
    /\ lcall.id = 3

\* C3: for a position whose entries are all in range, get_index returns the
\* row-major value, which lies in 0 .. size-1; for a rank-0 tensor it returns
\* 0, and for extents [2,3,4] position [1,2,3] gives 23.
GetIndexRowMajor ==
    (last.op = "get_index" /\ InRange(t, last.position)) =>
        /\ last.index = RowMajor(t, last.position)
        /\ last.index >= 0
        /\ last.index < t.size
        /\ (t.rank = 0 => last.index = 0)
        /\ (t.dims = <<2, 3, 4>> /\ last.position = <<1, 2, 3>> => last.index = 23)

GetIndexRowMajorWitness ==
    /\ last.op = "get_index"
    /\ t.dims = <<2, 3, 4>>
    /\ last.position = <<1, 2, 3>>
    /\ last.index = 23

\* C4: for a tensor with pairwise distinct legs, a value written through
\* positional access at an in-range position p is what the leg-keyed read
\* with the mapping {legs[i] -> p[i]} returns, from the element at the
\* row-major index of p.
LegKeyedEqualsPositional ==
    (/\ last.op = "read_dict"
     /\ last.prev.op = "write_at"
     /\ InRange(t, last.prev.position)
     /\ PairwiseDistinct(t.legs)
     /\ last.dict = LegMap(t.legs, last.prev.position)) =>
        /\ last.outcome = "ok"
        /\ last.value = last.prev.value
        /\ last.position = last.prev.position
        /\ last.index = RowMajor(t, last.prev.position)

\* Written at [1, 0] of a rank-2 tensor whose legs are in descending id
\* order, and read back through its legs.
LegKeyedEqualsPositionalWitness ==
    /\ last.op = "read_dict"
    /\ last.prev.op = "write_at"
    /\ last.prev.position = <<1, 0>>
    /\ InRange(t, last.prev.position)
    /\ t.rank = 2
    /\ t.legs[1] > t.legs[2]
    /\ last.dict = LegMap(t.legs, last.prev.position)
    /\ last.value \in WriteValues

\* C5: leg-keyed access, reading or writing, with a mapping that omits a leg
\* of the tensor ends in std::out_of_range: no element of the buffer is
\* reached and the tensor is as it was.
MissingKeyFails ==
    (/\ last.op \in {"read_dict", "write_dict"}
     /\ \E k \in 1 .. Len(last.before.legs) :
           last.before.legs[k] \notin DOMAIN last.dict) =>
        /\ last.outcome = "out_of_range"
        /\ last.index = -1
        /\ t = last.before

\* A write through a mapping that names one of two legs.
MissingKeyFailsWitness ==
    /\ last.op = "write_dict"
    /\ t.rank = 2
    /\ Cardinality(DOMAIN last.dict) = 1
    /\ \E k \in 1 .. 2 : t.legs[k] \in DOMAIN last.dict
    /\ last.outcome = "out_of_range"

\* C9, as claimed: positional access with an entry outside [0, extent) fails
\* explicitly; it reaches no element and no memory outside the buffer.
OutOfRangePositionFails ==
    (/\ last.op \in {"read_at", "write_at"}
     /\ ~InRange(last.before, last.position)) =>
        /\ last.outcome \notin {"ok", "outside", "fault"}
        /\ t = last.before

\* C6: generate calls the producer size times and stores the result of call
\* k (from 0) at flat index k; after generate from a counter a leg-keyed
\* read of an in-range position returns the counter's start plus the
\* row-major index, so that the tensor of main, filled from 0, holds 0 at
\* {Up:0, Down:0, Left:0} and 23 at {Up:1, Down:2, Left:3}.
GenerateFillsInOrder ==
    /\ last.op = "generate" =>
          /\ last.arg = last.before.size
          /\ Len(t.data) = t.size
          /\ \A k \in 1 .. Len(t.data) : t.data[k] = last.value + (k - 1)
    /\ (last.op = "read_dict" /\ last.prev.op = "generate"
            /\ InRange(t, last.position)) =>
          /\ last.outcome = "ok"
          /\ last.value = last.prev.value + RowMajor(t, last.position)
          /\ (t = [MainTensor EXCEPT !.data = [k \in 1 .. 24 |-> k - 1]] =>
                /\ (last.dict = LegMap(MainLegs(3), <<0, 0, 0>>) => last.value = 0)
                /\ (last.dict = LegMap(MainLegs(3), <<1, 2, 3>>) => last.value = 23))

\* The tensor of main filled from 0 and read at {Up:1, Down:2, Left:3}.
GenerateFillsInOrderWitness ==
    /\ last.op = "read_dict"
    /\ last.prev.op = "generate"
    /\ last.prev.value = 0
    /\ t.dims = <<2, 3, 4>>
    /\ t.legs = <<StaticId("Up"), StaticId("Down"), StaticId("Left")>>
    /\ last.dict = (StaticId("Up") :> 1) @@ (StaticId("Down") :> 2) @@ (StaticId("Left") :> 3)
    /\ last.value = 23

ZipMismatchFailsFast ==
    (/\ last.op \in {"inplace_op_binary", "outplace_op_binary"}
     /\ Len(last.before.data) # Len(t2.data)) =>
        /\ last.outcome \notin {"ok", "outside", "fault"}
        /\ t = last.before
====
